---- MODULE Spec2Model ----
(***************************************************************************)
(* A model of dpstats/subject.py: the percentile helper _tile, the input   *)
(* converters _convert_bounds / _convert_distribution, and the class       *)
(* Subject (construction, sampling, bootstrap confidence interval,         *)
(* memoised statistics, z-score).                                          *)
(*                                                                         *)
(* Numbers are exact rationals <<numerator, denominator>> in lowest terms  *)
(* with a positive denominator: Python's floats are modelled by the real   *)
(* numbers they approximate, so rounding error is outside this model.      *)
(* The square root of a rational is kept exactly as a signed surd          *)
(* [sgn, rad], the real number sgn * sqrt(rad).                            *)
(***************************************************************************)
EXTENDS Integers, Sequences, FiniteSets, TLC

VARIABLES
    heap,          \* object id -> contents of a dict object (label -> value)
    constructed,   \* TRUE once a Subject has been constructed
    boundaries,    \* Subject.boundaries: the id of a dict object
    distribution,  \* Subject.distribution: the id of a dict object
    grades,        \* Subject._grades: sorted sequence of labels
    memory,        \* Subject._memory: "_mu" / "_sigma" -> value
    mutations,     \* number of outside writes to the mappings so far
    op,            \* the last operation called
    args,          \* its inputs (a snapshot taken at the call)
    outcome,       \* "ok", or the class of the exception it raised
    ret            \* the value it returned

vars == <<heap, constructed, boundaries, distribution, grades, memory,
          mutations, op, args, outcome, ret>>

-----------------------------------------------------------------------------
(* Bounds of the model.                                                    *)

MaxRaw == 2        \* raw weights are 0 .. MaxRaw
MaxMark == 1       \* marks are 0 .. MaxMark; intervals are lo .. MaxMark
UDen == 4          \* uniform draws are 0/UDen .. (UDen-1)/UDen
MaxMutations == 1  \* outside writes to a mapping after construction
MaxLen == 3        \* longest sequence handed to _tile
MaxVal == 3        \* largest element of such a sequence
PDen == 4          \* percentile ranks are 0/PDen .. (PDen-1)/PDen
MaxN == 2          \* largest bootstrap sample size
MaxSims == 2       \* largest number of bootstrap trials
CIDen == 2         \* bootstrap draws are 0/CIDen .. (CIDen-1)/CIDen

-----------------------------------------------------------------------------
(* Exact rational arithmetic.                                              *)

Abs(x) == IF x < 0 THEN -x ELSE x

RECURSIVE GCD(_, _)
GCD(a, b) == IF b = 0 THEN a ELSE GCD(b, a % b)

Norm(n, d) ==
    LET s == IF d < 0 THEN -1 ELSE 1
        g == GCD(Abs(n), Abs(d))
    IN  <<(s * n) \div g, (s * d) \div g>>

R(n) == <<n, 1>>
Zero == R(0)
One == R(1)
RAdd(a, b) == Norm(a[1] * b[2] + b[1] * a[2], a[2] * b[2])
RSub(a, b) == Norm(a[1] * b[2] - b[1] * a[2], a[2] * b[2])
RMul(a, b) == Norm(a[1] * b[1], a[2] * b[2])
RDiv(a, b) == Norm(a[1] * b[2], a[2] * b[1])      \* b # Zero
RLt(a, b) == a[1] * b[2] < b[1] * a[2]
RLeq(a, b) == a[1] * b[2] <= b[1] * a[2]
RSign(a) == IF a[1] < 0 THEN -1 ELSE IF a[1] = 0 THEN 0 ELSE 1
\* int(d): truncation towards zero
RInt(a) == IF a[1] >= 0 THEN a[1] \div a[2] ELSE -((-a[1]) \div a[2])

\* math.sqrt(v) for v >= 0, as a signed surd
Sqrt(v) == [sgn |-> RSign(v), rad |-> v]
\* x / s for a rational x and a nonzero surd s
DivBySurd(x, s) == [sgn |-> RSign(x) * s.sgn, rad |-> RDiv(RMul(x, x), s.rad)]

RECURSIVE SumOver(_, _)
SumOver(f, S) ==
    IF S = {} THEN Zero
    ELSE LET x == CHOOSE y \in S : TRUE
         IN  RAdd(f[x], SumOver(f, S \ {x}))

\* sum(mapping.values())
SumValues(f) == SumOver(f, DOMAIN f)

-----------------------------------------------------------------------------
(* _tile (subject.py 6-16).  The result is [outcome, value].               *)

\* data is a 1-based sequence here: Python's data[k] is data[k + 1]
_tile(data, p) ==
    IF ~(RLeq(Zero, p) /\ RLt(p, One))
    THEN [outcome |-> "AssertionError", value |-> Zero]
    ELSE LET d == RMul(p, R(Len(data) - 1))
             k == RInt(d)
             r == RSub(d, R(k))
         IN  IF k + 2 > Len(data)
             THEN [outcome |-> "IndexError", value |-> Zero]
             ELSE [outcome |-> "ok", value |->
                     RAdd(data[k + 1], RMul(r, RSub(data[k + 2], data[k + 1])))]

-----------------------------------------------------------------------------
(* Grade labels are strings of digits, modelled as sequences of digits:    *)
(* "1" is <<1>>, "10" is <<1, 0>>, "2" is <<2>>.                           *)

Labels == {<<1>>, <<1, 0>>, <<2>>}

\* the number the digits of a numeric string spell
RECURSIVE DigitsValue(_)
DigitsValue(s) ==
    IF s = <<>> THEN 0 ELSE 10 * DigitsValue(SubSeq(s, 1, Len(s) - 1)) + s[Len(s)]

\* str.__lt__: lexicographic order of the characters
RECURSIVE LexLess(_, _)
LexLess(a, b) ==
    IF b = <<>> THEN FALSE
    ELSE IF a = <<>> THEN TRUE
    ELSE IF a[1] # b[1] THEN a[1] < b[1]
    ELSE LexLess(Tail(a), Tail(b))

\* Mutant of SortedKeys: the labels in numeric instead of lexicographic order.
RECURSIVE SortedNumerically(_)
SortedNumerically(S) ==
    IF S = {} THEN <<>>
    ELSE LET m == CHOOSE x \in S :
                     \A y \in S \ {x} :
                        \/ DigitsValue(x) < DigitsValue(y)
                        \/ DigitsValue(x) = DigitsValue(y) /\ LexLess(x, y)
         IN  <<m>> \o SortedNumerically(S \ {m})

\* sorted(self.distribution.keys()) (subject.py 111)
RECURSIVE SortedKeys(_)
SortedKeys(S) ==
    IF S = {} THEN <<>>
    ELSE LET m == CHOOSE x \in S : \A y \in S \ {x} : LexLess(x, y)
         IN  <<m>> \o SortedKeys(S \ {m})

\* Characters are numbers: 0 .. 9 are the digits, anything above is a letter.
IsNumeric(s) == s # <<>> /\ \A i \in 1..Len(s) : s[i] \in 0..9


-----------------------------------------------------------------------------
(* Python values: [k, v] with k the type and v the payload.                *)
(*   "num"   a number (v a rational)      "str"  a string (v its chars)    *)
(*   "tuple" a tuple (v a sequence)       "dict" a fresh dict (v a map)    *)
(*   "ref"   a dict object that already exists (v its id in the heap)      *)
(*   "text"  a str holding source text (v its tokens)                      *)
(*   "list"  a list (v a sequence): neither str nor dict                   *)
(* A token is [t, v]: punctuation "{" "}" "(" ")" "," ":", or "num",       *)
(* "str", "name" with the payload in v.                                    *)

Num(q) == [k |-> "num", v |-> q]
Str(s) == [k |-> "str", v |-> s]
Tup(x, y) == [k |-> "tuple", v |-> <<x, y>>]
Dict(f) == [k |-> "dict", v |-> f]
Ref(o) == [k |-> "ref", v |-> o]
Text(toks) == [k |-> "text", v |-> toks]
None == [k |-> "none", v |-> <<>>]

P(c) == [t |-> c, v |-> <<>>]
TNum(q) == [t |-> "num", v |-> q]
TStr(s) == [t |-> "str", v |-> s]
TName(n) == [t |-> "name", v |-> n]

\* the value without its tags: what the Subject's arithmetic reads
RECURSIVE Plain(_)
Plain(x) ==
    IF x.k = "tuple" THEN [i \in DOMAIN x.v |-> Plain(x.v[i])]
    ELSE IF x.k = "dict" THEN [g \in DOMAIN x.v |-> Plain(x.v[g])]
    ELSE x.v

\* repr() of a dict whose values are numbers (pairs FALSE) or 2-tuples of
\* numbers (pairs TRUE), keys in sorted order
ReprValue(x, pairs) ==
    IF pairs
    THEN <<P("("), TNum(x[1]), P(","), TNum(x[2]), P(")")>>
    ELSE <<TNum(x)>>

RECURSIVE ReprItems(_, _, _)
ReprItems(f, keys, pairs) ==
    IF keys = <<>> THEN <<>>
    ELSE <<TStr(keys[1]), P(":")>> \o ReprValue(f[keys[1]], pairs)
         \o (IF Len(keys) = 1 THEN <<>> ELSE <<P(",")>>)
         \o ReprItems(f, Tail(keys), pairs)

Repr(f, pairs) ==
    <<P("{")>> \o ReprItems(f, SortedKeys(DOMAIN f), pairs) \o <<P("}")>>

-----------------------------------------------------------------------------
(* eval(text) (subject.py 28, 43): Python compiles the whole text, then    *)
(* evaluates the expression.  Parse covers the expressions                 *)
(*   number | string | name | name() | (e, e) | {string: e, ...}           *)
(* and answers [ok, ast, rest]; every other text is a SyntaxError.         *)

Fail == [ok |-> FALSE, ast |-> None, rest |-> <<>>]
IsTok(toks, c) == toks # <<>> /\ toks[1].t = c

RECURSIVE Parse(_)
RECURSIVE ParseItems(_, _, _)

ParseItems(toks, keys, vals) ==
    IF ~(Len(toks) >= 2 /\ toks[1].t = "str" /\ toks[2].t = ":") THEN Fail
    ELSE LET e == Parse(SubSeq(toks, 3, Len(toks)))
             ks == Append(keys, toks[1].v)
             vs == Append(vals, e.ast)
         IN  IF ~e.ok THEN Fail
             ELSE IF IsTok(e.rest, "}")
             THEN [ok |-> TRUE, ast |-> [k |-> "dictlit", v |-> <<ks, vs>>],
                   rest |-> Tail(e.rest)]
             ELSE IF IsTok(e.rest, ",")
             THEN ParseItems(Tail(e.rest), ks, vs)
             ELSE Fail

Parse(toks) ==
    IF toks = <<>> THEN Fail
    ELSE LET h == toks[1]
             tl == Tail(toks)
         IN  CASE h.t = "num" -> [ok |-> TRUE, ast |-> Num(h.v), rest |-> tl]
               [] h.t = "str" -> [ok |-> TRUE, ast |-> Str(h.v), rest |-> tl]
               [] h.t = "name" ->
                    IF Len(tl) >= 2 /\ tl[1].t = "(" /\ tl[2].t = ")"
                    THEN [ok |-> TRUE, ast |-> [k |-> "call", v |-> h.v],
                          rest |-> SubSeq(tl, 3, Len(tl))]
                    ELSE [ok |-> TRUE, ast |-> [k |-> "name", v |-> h.v], rest |-> tl]
               [] h.t = "(" ->
                    LET x == Parse(tl)
                    IN  IF ~(x.ok /\ IsTok(x.rest, ",")) THEN Fail
                        ELSE LET y == Parse(Tail(x.rest))
                             IN  IF ~(y.ok /\ IsTok(y.rest, ")")) THEN Fail
                                 ELSE [ok |-> TRUE,
                                       ast |-> [k |-> "tuplelit", v |-> <<x.ast, y.ast>>],
                                       rest |-> Tail(y.rest)]
               [] h.t = "{" ->
                    IF IsTok(tl, "}")
                    THEN [ok |-> TRUE, ast |-> [k |-> "dictlit", v |-> <<<<>>, <<>>>>],
                          rest |-> Tail(tl)]
                    ELSE ParseItems(tl, <<>>, <<>>)
               [] OTHER -> Fail

\* The names eval can see: the module's globals and the builtins.
KnownNames == {"dict", "sqrt", "connect", "Subject"}

\* The dict a display {k1: v1, ...} builds: a later duplicate key wins.
MakeDict(keys, vals) ==
    [g \in {keys[i] : i \in DOMAIN keys} |->
        vals[CHOOSE i \in DOMAIN keys :
                keys[i] = g /\ \A j \in DOMAIN keys : keys[j] = g => j <= i]]

\* Evaluation of a parsed expression: [outcome, value, ran], ran TRUE when
\* a call was made, that is when code other than a literal was run.
RECURSIVE Exec(_)
Exec(ast) ==
    CASE ast.k \in {"num", "str"} -> [outcome |-> "ok", value |-> ast, ran |-> FALSE]
      [] ast.k = "name" ->
            IF ast.v \in KnownNames
            THEN [outcome |-> "ok", value |-> [k |-> "function", v |-> ast.v],
                  ran |-> FALSE]
            ELSE [outcome |-> "NameError", value |-> None, ran |-> FALSE]
      [] ast.k = "call" ->
            IF ast.v = "dict"
            THEN [outcome |-> "ok", value |-> Dict(<<>>), ran |-> TRUE]
            ELSE IF ast.v \in KnownNames
            THEN [outcome |-> "TypeError", value |-> None, ran |-> TRUE]
            ELSE [outcome |-> "NameError", value |-> None, ran |-> FALSE]
      [] ast.k \in {"tuplelit", "dictlit"} ->
            LET items == IF ast.k = "tuplelit" THEN ast.v ELSE ast.v[2]
                rs == [i \in DOMAIN items |-> Exec(items[i])]
                bad == {i \in DOMAIN items : rs[i].outcome # "ok"}
                first == CHOOSE i \in bad : \A j \in bad : i <= j
                ran == \E i \in DOMAIN items :
                          rs[i].ran /\ (bad = {} \/ i <= first)
                vs == [i \in DOMAIN items |-> rs[i].value]
            IN  IF bad # {}
                THEN [outcome |-> rs[first].outcome, value |-> None, ran |-> ran]
                ELSE IF ast.k = "tuplelit"
                THEN [outcome |-> "ok", value |-> [k |-> "tuple", v |-> vs],
                      ran |-> ran]
                ELSE [outcome |-> "ok", value |-> Dict(MakeDict(ast.v[1], vs)),
                      ran |-> ran]

eval(toks) ==
    LET r == Parse(toks)
    IN  IF ~(r.ok /\ r.rest = <<>>)
        THEN [outcome |-> "SyntaxError", value |-> None, ran |-> FALSE]
        ELSE Exec(r.ast)

-----------------------------------------------------------------------------
(* The converters.  Each answers [outcome, value, ran].                    *)

\* _convert_bounds (subject.py 19-33)
_convert_bounds(data) ==
    CASE data.k = "text" -> eval(data.v)
      [] data.k \in {"ref", "dict"} -> [outcome |-> "ok", value |-> data, ran |-> FALSE]
      [] OTHER -> [outcome |-> "ValueError", value |-> None, ran |-> FALSE]

\* float(v)
Float(x) ==
    CASE x.k = "num" -> [outcome |-> "ok", value |-> x]
      [] x.k = "str" ->
            IF IsNumeric(x.v)
            THEN [outcome |-> "ok", value |-> Num(R(DigitsValue(x.v)))]
            ELSE [outcome |-> "ValueError", value |-> None]
      [] OTHER -> [outcome |-> "TypeError", value |-> None]

\* _convert_distribution (subject.py 36-48); of several values float()
\* rejects, the one under the least key decides the exception
_convert_distribution(data) ==
    CASE data.k = "text" ->
            LET e == eval(data.v)
            IN  IF e.outcome # "ok" THEN e
                ELSE IF e.value.k # "dict"
                THEN [outcome |-> "AttributeError", value |-> None, ran |-> e.ran]
                ELSE LET m == e.value.v
                         fs == [g \in DOMAIN m |-> Float(m[g])]
                         bad == {g \in DOMAIN m : fs[g].outcome # "ok"}
                     IN  IF bad # {}
                         THEN [outcome |-> fs[SortedKeys(bad)[1]].outcome,
                               value |-> None, ran |-> e.ran]
                         ELSE [outcome |-> "ok",
                               value |-> Dict([g \in DOMAIN m |-> fs[g].value]),
                               ran |-> e.ran]
      [] data.k \in {"ref", "dict"} -> [outcome |-> "ok", value |-> data, ran |-> FALSE]
      [] OTHER -> [outcome |-> "ValueError", value |-> None, ran |-> FALSE]

-----------------------------------------------------------------------------
(* The caller's inputs.                                                    *)

RawWeights == {R(n) : n \in 0..MaxRaw}
Intervals == {<<R(lo), R(MaxMark)>> : lo \in 0..MaxMark}
Maps(L, V) == UNION {[S -> V] : S \in SUBSET L}
RawDistributions(L) == Maps(L, RawWeights)
RawBoundaries(L) == Maps(L, Intervals)

\* Object ids: the caller's two mappings, and the two dicts eval builds.
CallerDist == "callerDist"
CallerBounds == "callerBounds"
FreshDist == "freshDist"
FreshBounds == "freshBounds"

\* How a mapping object o is handed to Subject(): as the dict itself (the
\* class's documented example) or as its repr (a row of the sqlite table).
Handed(o, pairs, form) ==
    IF form = "dict" THEN Ref(o) ELSE Text(Repr(heap[o], pairs))
Forms == {"dict", "text"}

\* The state before any Subject exists: the caller holds a distribution
\* mapping d and a boundary mapping b, <<d, b>> drawn from Inputs.
InitWith(Inputs) ==
    /\ \E in \in Inputs :
          heap = [callerDist |-> in[1], callerBounds |-> in[2],
                  freshDist |-> <<>>, freshBounds |-> <<>>]
    /\ constructed = FALSE
    /\ boundaries = "unset"
    /\ distribution = "unset"
    /\ grades = <<>>
    /\ memory = <<>>
    /\ mutations = 0
    /\ op = "none"
    /\ args = <<>>
    /\ outcome = "ok"
    /\ ret = <<>>

-----------------------------------------------------------------------------
(* Subject.__init__ (subject.py 95-115).                                   *)

\* the object a converter's result is: the dict handed in, or a new one
ObjectOf(value, fresh) == IF value.k = "ref" THEN value.v ELSE fresh
ContentsOf(value) == IF value.k = "ref" THEN heap[value.v] ELSE Plain(value)

\* Mutant of Normalized: the weights are left as they were handed in.
NotNormalized(d, total) == d

\* for grade in self._grades: self.distribution[grade] /= total
Normalized(d, total) == [g \in DOMAIN d |-> RDiv(d[g], total)]

Construct(boundary_data, distribution_data) ==
    LET b == _convert_bounds(boundary_data)
        d == _convert_distribution(distribution_data)
        dist == ContentsOf(d.value)
        total == SumValues(dist)
        fail(e) == /\ outcome' = e
                   /\ UNCHANGED <<heap, constructed, boundaries, distribution,
                                  grades, memory>>
    IN  /\ op' = "__init__"
        /\ args' = [boundary_data |-> boundary_data,
                    distribution_data |-> distribution_data,
                    raw |-> heap[CallerDist],
                    rawBounds |-> heap[CallerBounds]]
        /\ ret' = <<>>
        /\ UNCHANGED mutations
        /\ IF b.outcome # "ok" THEN fail(b.outcome)
           ELSE IF d.outcome # "ok" THEN fail(d.outcome)
           ELSE IF DOMAIN dist # {} /\ total = Zero THEN fail("ZeroDivisionError")
           ELSE /\ outcome' = "ok"
                /\ constructed' = TRUE
                /\ boundaries' = ObjectOf(b.value, FreshBounds)
                /\ distribution' = ObjectOf(d.value, FreshDist)
                /\ heap' = [heap EXCEPT
                              ![ObjectOf(b.value, FreshBounds)] = ContentsOf(b.value),
                              ![ObjectOf(d.value, FreshDist)] = Normalized(dist, total)]
                /\ grades' = SortedKeys(DOMAIN dist)
                /\ memory' = <<>>

\* Subject(...) called with the caller's two mappings
NewSubjectFrom(form) ==
    Construct(Handed(CallerBounds, TRUE, form), Handed(CallerDist, FALSE, form))

NewSubject == \E form \in Forms : NewSubjectFrom(form)

-----------------------------------------------------------------------------
(* Outside writes.  boundaries and distribution are public attributes and, *)
(* when a dict was handed in, the caller's own objects; a write replaces   *)
(* the value under an existing key.                                        *)

MutateDistribution ==
    /\ constructed
    /\ mutations < MaxMutations
    /\ \E g \in DOMAIN heap[distribution], w \in RawWeights :
          /\ w # heap[distribution][g]
          /\ heap' = [heap EXCEPT ![distribution][g] = w]
          /\ args' = <<g, w>>
    /\ mutations' = mutations + 1
    /\ op' = "set_distribution"
    /\ outcome' = "ok"
    /\ ret' = <<>>
    /\ UNCHANGED <<constructed, boundaries, distribution, grades, memory>>

MutateBoundaries ==
    /\ constructed
    /\ mutations < MaxMutations
    /\ \E g \in DOMAIN heap[boundaries], iv \in Intervals :
          /\ iv # heap[boundaries][g]
          /\ heap' = [heap EXCEPT ![boundaries][g] = iv]
          /\ args' = <<g, iv>>
    /\ mutations' = mutations + 1
    /\ op' = "set_boundaries"
    /\ outcome' = "ok"
    /\ ret' = <<>>
    /\ UNCHANGED <<constructed, boundaries, distribution, grades, memory>>

-----------------------------------------------------------------------------
(* Subject.random_grade (subject.py 117-127) for the draw u = random().    *)

\* Mutant of Walk: a loop that runs out of grades raises instead of answering
\* the last grade.
RECURSIVE WalkRaisesWhenExhausted(_, _, _, _)
WalkRaisesWhenExhausted(gs, dist, r, i) ==
    IF i > Len(gs) THEN [outcome |-> "RuntimeError", value |-> <<>>]
    ELSE IF gs[i] \notin DOMAIN dist THEN [outcome |-> "KeyError", value |-> <<>>]
    ELSE LET r2 == RSub(r, dist[gs[i]])
         IN  IF RLt(r2, Zero) THEN [outcome |-> "ok", value |-> gs[i]]
             ELSE WalkRaisesWhenExhausted(gs, dist, r2, i + 1)

\* the loop from index i on, r the running value; after the last grade the
\* loop variable still holds the last grade
RECURSIVE Walk(_, _, _, _)
Walk(gs, dist, r, i) ==
    IF i > Len(gs) THEN [outcome |-> "ok", value |-> gs[Len(gs)]]
    ELSE IF gs[i] \notin DOMAIN dist THEN [outcome |-> "KeyError", value |-> <<>>]
    ELSE LET r2 == RSub(r, dist[gs[i]])
         IN  IF RLt(r2, Zero) THEN [outcome |-> "ok", value |-> gs[i]]
             ELSE Walk(gs, dist, r2, i + 1)

\* with no grade at all the loop variable is never bound
random_grade(gs, dist, u) ==
    IF gs = <<>> THEN [outcome |-> "UnboundLocalError", value |-> <<>>]
    ELSE Walk(gs, dist, u, 1)

UDraws == {Norm(n, UDen) : n \in 0..(UDen - 1)}

RandomGrade ==
    /\ constructed
    /\ \E u \in UDraws :
          LET g == random_grade(grades, heap[distribution], u)
          IN  /\ args' = u
              /\ outcome' = g.outcome
              /\ ret' = g.value
    /\ op' = "random_grade"
    /\ UNCHANGED <<heap, constructed, boundaries, distribution, grades, memory,
                   mutations>>

-----------------------------------------------------------------------------
(* The memoised statistics (subject.py 159-200).  An access answers        *)
(* [outcome, value, memory]: memory is self._memory after the access.      *)

MU == "_mu"
SIGMA == "_sigma"
Store(mem, key, val) ==
    [k \in DOMAIN mem \cup {key} |-> IF k = key THEN val ELSE mem[k]]

Known(gs, bnd, dist) == \A i \in DOMAIN gs : gs[i] \in DOMAIN bnd /\ gs[i] \in DOMAIN dist

\* Subject._midpoint (subject.py 159-161)
_midpoint(bnd, grade) == RDiv(RAdd(bnd[grade][1], bnd[grade][2]), R(2))

\* sum(self._midpoint(grade) * self.distribution[grade] for grade ...)
RECURSIVE MeanSum(_, _, _, _)
MeanSum(gs, bnd, dist, i) ==
    IF i > Len(gs) THEN Zero
    ELSE RAdd(RMul(_midpoint(bnd, gs[i]), dist[gs[i]]), MeanSum(gs, bnd, dist, i + 1))

\* sum((self._midpoint(grade) - mu) ** 2 * self.distribution[grade] for ...)
RECURSIVE SquaresSum(_, _, _, _, _)
SquaresSum(gs, bnd, dist, mu, i) ==
    IF i > Len(gs) THEN Zero
    ELSE LET dev == RSub(_midpoint(bnd, gs[i]), mu)
         IN  RAdd(RMul(RMul(dev, dev), dist[gs[i]]),
                  SquaresSum(gs, bnd, dist, mu, i + 1))

\* Mutant of scaled_mean: the value is computed and stored at every access.
scaled_mean_recomputed(mem, gs, bnd, dist) ==
    IF ~Known(gs, bnd, dist)
    THEN [outcome |-> "KeyError", value |-> <<>>, memory |-> mem]
    ELSE LET mu == MeanSum(gs, bnd, dist, 1)
         IN  [outcome |-> "ok", value |-> mu, memory |-> Store(mem, MU, mu)]

\* Mutant of scaled_mean: a grade without a boundary entry is left out of
\* the sum.
scaled_mean_skipping_unknown(mem, gs, bnd, dist) ==
    IF MU \in DOMAIN mem
    THEN [outcome |-> "ok", value |-> mem[MU], memory |-> mem]
    ELSE LET known == SelectSeq(gs, LAMBDA g : g \in DOMAIN bnd /\ g \in DOMAIN dist)
             mu == MeanSum(known, bnd, dist, 1)
         IN  [outcome |-> "ok", value |-> mu, memory |-> Store(mem, MU, mu)]

\* the property scaled_mean (subject.py 163-176): the assignment to
\* self._memory happens only after the whole sum was evaluated
scaled_mean(mem, gs, bnd, dist) ==
    IF MU \in DOMAIN mem
    THEN [outcome |-> "ok", value |-> mem[MU], memory |-> mem]
    ELSE IF ~Known(gs, bnd, dist)
    THEN [outcome |-> "KeyError", value |-> <<>>, memory |-> mem]
    ELSE LET mu == MeanSum(gs, bnd, dist, 1)
         IN  [outcome |-> "ok", value |-> mu, memory |-> Store(mem, MU, mu)]

\* the property scaled_standard_deviation (subject.py 178-194): each term
\* evaluates _midpoint(grade), then self.scaled_mean, then the weight
scaled_standard_deviation(mem, gs, bnd, dist) ==
    IF SIGMA \in DOMAIN mem
    THEN [outcome |-> "ok", value |-> mem[SIGMA], memory |-> mem]
    ELSE IF gs = <<>>
    THEN [outcome |-> "ok", value |-> Sqrt(Zero), memory |-> Store(mem, SIGMA, Sqrt(Zero))]
    ELSE IF gs[1] \notin DOMAIN bnd
    THEN [outcome |-> "KeyError", value |-> <<>>, memory |-> mem]
    ELSE LET m == scaled_mean(mem, gs, bnd, dist)
             var == SquaresSum(gs, bnd, dist, m.value, 1)
         IN  IF m.outcome # "ok" THEN m
             ELSE IF ~Known(gs, bnd, dist)
             THEN [outcome |-> "KeyError", value |-> <<>>, memory |-> m.memory]
             ELSE IF RLt(var, Zero)
             THEN [outcome |-> "ValueError", value |-> <<>>, memory |-> m.memory]
             ELSE [outcome |-> "ok", value |-> Sqrt(var),
                   memory |-> Store(m.memory, SIGMA, Sqrt(var))]

\* Mutant of z_score_for: a division by zero answers a value (an infinity)
\* instead of raising.
z_score_for_without_raise(mem, gs, bnd, dist, scaled_mark) ==
    LET m == scaled_mean(mem, gs, bnd, dist)
        sd == scaled_standard_deviation(m.memory, gs, bnd, dist)
    IN  IF m.outcome # "ok" THEN m
        ELSE IF sd.outcome # "ok" THEN sd
        ELSE IF sd.value.sgn = 0
        THEN [outcome |-> "ok", value |-> "inf", memory |-> sd.memory]
        ELSE [outcome |-> "ok", value |-> DivBySurd(RSub(scaled_mark, m.value), sd.value),
              memory |-> sd.memory]

\* z_score_for (subject.py 196-200): scaled_mean is read first, then
\* scaled_standard_deviation; Python's division by 0.0 raises
z_score_for(mem, gs, bnd, dist, scaled_mark) ==
    LET m == scaled_mean(mem, gs, bnd, dist)
        sd == scaled_standard_deviation(m.memory, gs, bnd, dist)
    IN  IF m.outcome # "ok" THEN m
        ELSE IF sd.outcome # "ok" THEN sd
        ELSE IF sd.value.sgn = 0
        THEN [outcome |-> "ZeroDivisionError", value |-> <<>>, memory |-> sd.memory]
        ELSE [outcome |-> "ok", value |-> DivBySurd(RSub(scaled_mark, m.value), sd.value),
              memory |-> sd.memory]

Access(name, a, r) ==
    /\ constructed
    /\ op' = name
    /\ args' = a
    /\ outcome' = r.outcome
    /\ ret' = r.value
    /\ memory' = r.memory
    /\ UNCHANGED <<heap, constructed, boundaries, distribution, grades, mutations>>

ScaledMean ==
    Access("scaled_mean", <<>>,
           scaled_mean(memory, grades, heap[boundaries], heap[distribution]))

ScaledStandardDeviation ==
    Access("scaled_standard_deviation", <<>>,
           scaled_standard_deviation(memory, grades, heap[boundaries], heap[distribution]))

\* the marks a caller asks about: whole marks, and the value scaled_mean
\* returned to it (readable only once memoised)
Marks == {R(n) : n \in 0..MaxMark} \cup (IF MU \in DOMAIN memory THEN {memory[MU]} ELSE {})

ZScoreFor ==
    \E mark \in Marks :
        Access("z_score_for", mark,
               z_score_for(memory, grades, heap[boundaries], heap[distribution], mark))

-----------------------------------------------------------------------------
(* The bootstrap (subject.py 129-157).  us[t][j] is the draw random()      *)
(* returns for the j-th grade of trial t.                                  *)

\* sorted(): insertion into an ascending sequence
RECURSIVE Insert(_, _)
Insert(seq, x) ==
    IF seq = <<>> THEN <<x>>
    ELSE IF RLeq(x, seq[1]) THEN <<x>> \o seq
    ELSE <<seq[1]>> \o Insert(Tail(seq), x)

RECURSIVE Sorted(_)
Sorted(seq) == IF seq = <<>> THEN <<>> ELSE Insert(Sorted(Tail(seq)), seq[1])

RECURSIVE SumSeq(_)
SumSeq(seq) == IF seq = <<>> THEN Zero ELSE RAdd(seq[1], SumSeq(Tail(seq)))

\* the first result of a sequence of results that is an error, if any
RECURSIVE FirstError(_, _)
FirstError(rs, i) ==
    IF i > Len(rs) THEN 0 ELSE IF rs[i].outcome # "ok" THEN i ELSE FirstError(rs, i + 1)

\* random_grade_sample (subject.py 129-134) with the draws u[1..n]
RECURSIVE Draw(_, _, _, _, _)
Draw(gs, dist, n, u, j) ==
    IF j > n THEN <<>>
    ELSE <<random_grade(gs, dist, u[j])>> \o Draw(gs, dist, n, u, j + 1)

random_grade_sample(gs, dist, n, u) ==
    LET rs == Draw(gs, dist, n, u, 1)
        bad == FirstError(rs, 1)
    IN  IF bad # 0 THEN [outcome |-> rs[bad].outcome, value |-> <<>>]
        ELSE [outcome |-> "ok", value |-> rs]

\* bootstrap_grade_average (subject.py 136-144) with the default transform,
\* float(grade)
RECURSIVE Transformed(_, _)
Transformed(sample, j) ==
    IF j > Len(sample) THEN <<>>
    ELSE <<Float(Str(sample[j].value))>> \o Transformed(sample, j + 1)

RECURSIVE SumValuesOf(_, _)
SumValuesOf(fs, j) ==
    IF j > Len(fs) THEN Zero ELSE RAdd(fs[j].value.v, SumValuesOf(fs, j + 1))

bootstrap_grade_average(gs, dist, n, u) ==
    LET sample == random_grade_sample(gs, dist, n, u)
        fs == Transformed(sample.value, 1)
        bad == FirstError(fs, 1)
    IN  IF sample.outcome # "ok" THEN sample
        ELSE IF bad # 0 THEN [outcome |-> fs[bad].outcome, value |-> <<>>]
        ELSE IF n = 0 THEN [outcome |-> "ZeroDivisionError", value |-> <<>>]
        ELSE [outcome |-> "ok", value |-> RDiv(SumValuesOf(fs, 1), R(n))]

\* average_grade_confidence_interval (subject.py 146-157); trials counts the
\* bootstrap trials that were run
RECURSIVE Trials(_, _, _, _, _, _)
Trials(gs, dist, n, simulations, us, t) ==
    IF t > simulations THEN <<>>
    ELSE <<bootstrap_grade_average(gs, dist, n, us[t])>>
         \o Trials(gs, dist, n, simulations, us, t + 1)

RECURSIVE Values(_, _)
Values(rs, i) == IF i > Len(rs) THEN <<>> ELSE <<rs[i].value>> \o Values(rs, i + 1)

Quantiles(sampled_means, p) ==
    LET half == Norm(1, 2)
        low == _tile(sampled_means, RSub(half, RMul(p, half)))
        high == _tile(sampled_means, RAdd(half, RMul(p, half)))
        trials == Len(sampled_means)
    IN  IF low.outcome # "ok"
        THEN [outcome |-> low.outcome, value |-> <<>>, trials |-> trials]
        ELSE IF high.outcome # "ok"
        THEN [outcome |-> high.outcome, value |-> <<>>, trials |-> trials]
        ELSE [outcome |-> "ok", value |-> <<low.value, high.value>>,
              trials |-> trials]

average_grade_confidence_interval(gs, dist, n, p, simulations, us) ==
    IF ~(RLeq(Zero, p) /\ RLt(p, One))
    THEN [outcome |-> "AssertionError", value |-> <<>>, trials |-> 0]
    ELSE LET tr == Trials(gs, dist, n, simulations, us, 1)
             bad == FirstError(tr, 1)
         IN  IF bad # 0
             THEN [outcome |-> tr[bad].outcome, value |-> <<>>, trials |-> bad]
             ELSE Quantiles(Sorted(Values(tr, 1)), p)

Ranks == {Norm(n, PDen) : n \in 0..PDen}
CIDraws == {Norm(n, CIDen) : n \in 0..(CIDen - 1)}

ConfidenceInterval ==
    /\ constructed
    /\ \E n \in 1..MaxN, p \in Ranks, simulations \in 1..MaxSims :
          \E us \in [1..simulations -> [1..n -> CIDraws]] :
             LET r == average_grade_confidence_interval(
                          grades, heap[distribution], n, p, simulations, us)
             IN  /\ args' = [n |-> n, p |-> p, simulations |-> simulations]
                 /\ outcome' = r.outcome
                 /\ ret' = [value |-> r.value, trials |-> r.trials]
    /\ op' = "average_grade_confidence_interval"
    /\ UNCHANGED <<heap, constructed, boundaries, distribution, grades, memory,
                   mutations>>

-----------------------------------------------------------------------------
(* Calls of the module-level functions.                                    *)

Idle == UNCHANGED <<heap, constructed, boundaries, distribution, grades, memory,
                    mutations>>

RECURSIVE Ascending(_)
Ascending(n) ==
    IF n = 0 THEN {<<>>}
    ELSE {Append(q, R(x)) : q \in Ascending(n - 1), x \in 0..MaxVal}
SortedSeqs ==
    {q \in UNION {Ascending(n) : n \in 0..MaxLen} :
        \A i \in 1..(Len(q) - 1) : RLeq(q[i], q[i + 1])}

Tile ==
    /\ \E data \in SortedSeqs, p \in Ranks :
          LET r == _tile(data, p)
          IN  /\ args' = [data |-> data, p |-> p]
              /\ outcome' = r.outcome
              /\ ret' = r.value
    /\ op' = "_tile"
    /\ Idle

\* The string "a".
NotANumber == <<10>>

\* Arguments that are neither the caller's mapping nor its repr.
OddInputs == <<
    Text(<<TNum(R(1))>>),
    Text(<<P("("), TNum(R(0)), P(","), TNum(R(1)), P(")")>>),
    Text(<<TStr(<<1>>)>>),
    Text(<<TName("dict"), P("("), P(")")>>),
    Text(<<TName("connect"), P("("), P(")")>>),
    Text(<<TName("sqrt")>>),
    Text(<<TName("undefined")>>),
    Text(<<P("{"), TStr(<<1>>), P(":")>>),
    Text(<<>>),
    Text(<<P("{"), TStr(<<1>>), P(":"), TStr(<<2>>), P("}")>>),
    Text(<<P("{"), TStr(<<1>>), P(":"), TStr(NotANumber), P("}")>>),
    Text(<<P("{"), TStr(<<1>>), P(":"), TName("dict"), P("("), P(")"), P("}")>>),
    Text(<<P("{"), TStr(<<1>>), P(":"), TNum(R(1)), P(","),
           TStr(<<1>>), P(":"), TNum(R(2)), P("}")>>),
    Num(R(1)),
    Tup(Num(R(0)), Num(R(1))),
    None >>

Arguments(o, pairs) == <<Ref(o), Text(Repr(heap[o], pairs))>> \o OddInputs

Convert(name, data, r) ==
    /\ op' = name
    /\ args' = data
    /\ outcome' = r.outcome
    /\ ret' = [value |-> r.value, ran |-> r.ran]
    /\ Idle

ConvertBounds ==
    \E i \in DOMAIN Arguments(CallerBounds, TRUE) :
        LET data == Arguments(CallerBounds, TRUE)[i]
        IN  Convert("_convert_bounds", data, _convert_bounds(data))

ConvertDistribution ==
    \E i \in DOMAIN Arguments(CallerDist, FALSE) :
        LET data == Arguments(CallerDist, FALSE)[i]
        IN  Convert("_convert_distribution", data, _convert_distribution(data))

-----------------------------------------------------------------------------
(* The specifications.                                                     *)

\* A boundary table that gives every grade of S the interval 0 .. MaxMark.
Bulletin(S) == [g \in S |-> <<Zero, R(MaxMark)>>]

\* Construction and sampling: any distribution over Labels, with a boundary
\* table for exactly its grades; the caller's mappings may be used for
\* several Subjects.
Init == InitWith({<<d, Bulletin(DOMAIN d)>> : d \in RawDistributions(Labels)})

Next ==
    \/ NewSubject
    \/ RandomGrade

Spec == Init /\ [][Next]_vars

\* s = Subject(...): the one Subject whose life a specification follows
FirstSubject == ~constructed /\ NewSubjectFrom("dict")

\* Sampling from one Subject whose distribution is written to from outside.
NextSample ==
    \/ FirstSubject
    \/ MutateDistribution
    \/ RandomGrade

SpecSample == Init /\ [][NextSample]_vars

\* The statistics of one Subject: any distribution and any boundary table over two labels
\* whose lexicographic and numeric orders differ, key sets matching or not.
StatsLabels == {<<1, 0>>, <<2>>}

InitStats == InitWith(RawDistributions(StatsLabels) \X RawBoundaries(StatsLabels))

NextStats ==
    \/ FirstSubject
    \/ MutateDistribution
    \/ MutateBoundaries
    \/ ScaledMean
    \/ ScaledStandardDeviation
    \/ ZScoreFor

SpecStats == InitStats /\ [][NextStats]_vars

\* The confidence interval of a Subject constructed from any distribution.
NextCI ==
    \/ NewSubject
    \/ ConfidenceInterval

InitCI == InitWith({<<d, Bulletin(DOMAIN d)>> : d \in RawDistributions(StatsLabels)})

SpecCI == InitCI /\ [][NextCI]_vars

\* _tile on its own: nothing else happens.
InitTile == InitWith({<<<<>>, <<>>>>})

SpecTile == InitTile /\ [][Tile]_vars

\* The converters on their own.
NextNorm ==
    \/ ConvertBounds
    \/ ConvertDistribution

SpecNorm == InitStats /\ [][NextNorm]_vars

-----------------------------------------------------------------------------
(* The claims.                                                             *)

Range(seq) == {seq[i] : i \in DOMAIN seq}
Total(d) == SumValues(d)

\* C1: constructing a Subject leaves the caller's mappings as they were
\* before the call: same keys, same values.
C1_CallerMappingsUnchanged ==
    op = "__init__" =>
        /\ heap[CallerDist] = args.raw
        /\ heap[CallerBounds] = args.rawBounds

\* C2 as stated: every construction from non-negative raw weights completes,
\* and the stored weights are the raw weights divided by the raw total and
\* sum to 1.
C2_EveryConstructionNormalizes ==
    op = "__init__" =>
        /\ outcome = "ok"
        /\ DOMAIN heap[distribution] = DOMAIN args.raw
        /\ \A g \in DOMAIN args.raw :
              heap[distribution][g] = RDiv(args.raw[g], Total(args.raw))
        /\ Total(heap[distribution]) = One

\* C2 amended: a construction from non-negative raw weights whose total is
\* positive completes, and the stored weights are the raw weights divided by
\* the raw total and sum to 1, whether or not the raw weights summed to 1.
C2_PositiveTotalNormalizes ==
    (op = "__init__" /\ RLt(Zero, Total(args.raw))) =>
        /\ outcome = "ok"
        /\ DOMAIN heap[distribution] = DOMAIN args.raw
        /\ \A g \in DOMAIN args.raw :
              heap[distribution][g] = RDiv(args.raw[g], Total(args.raw))
        /\ Total(heap[distribution]) = One

\* a Subject was just constructed from several weights that do not sum to 1
C2_Witness ==
    /\ op = "__init__"
    /\ outcome = "ok"
    /\ Cardinality(DOMAIN args.raw) >= 2
    /\ RLt(One, Total(args.raw))
    /\ \E g \in DOMAIN args.raw : heap[distribution][g] # args.raw[g]

\* the running value of random_grade's loop after the i-th grade, for the draw u
Running(u, i) ==
    RSub(u, SumOver(heap[distribution], {grades[j] : j \in 1..i}))
\* the loop ends without the running value going negative
Exhausted(u) == \A i \in 1..Len(grades) : ~RLt(Running(u, i), Zero)

\* C5 as stated: for every constructed Subject and every draw, random_grade
\* returns a member of grades, the last grade when the loop is exhausted.
C5_EverySubjectSamples ==
    op = "random_grade" =>
        /\ outcome = "ok"
        /\ ret \in Range(grades)
        /\ Exhausted(args) => ret = grades[Len(grades)]

\* C5 amended: for every constructed Subject with at least one grade and
\* every draw, random_grade returns a member of grades, the last grade when
\* the loop is exhausted.
C5_SampleIsAGrade ==
    (op = "random_grade" /\ grades # <<>>) =>
        /\ outcome = "ok"
        /\ ret \in Range(grades)
        /\ Exhausted(args) => ret = grades[Len(grades)]

\* the loop was exhausted over several grades and the last one was returned
C5_Witness ==
    /\ op = "random_grade"
    /\ Len(grades) >= 2
    /\ Exhausted(args)
    /\ outcome = "ok"
    /\ ret = grades[Len(grades)]

\* the weights are non-negative and sum to 1
IsDistribution(d) == (\A g \in DOMAIN d : RLeq(Zero, d[g])) /\ Total(d) = One
\* the cumulative weight of g: the weights of the labels up to and including
\* g in lexicographic order
Cumulative(d, g) == SumOver(d, {h \in DOMAIN d : h = g \/ LexLess(h, g)})

\* C9: over a normalized distribution random_grade returns the first grade,
\* in lexicographic label order, whose cumulative weight exceeds the draw;
\* that grade has a positive weight and the loop is not exhausted.
C9_InverseCDF ==
    (op = "random_grade" /\ IsDistribution(heap[distribution])) =>
        LET d == heap[distribution]
        IN  /\ outcome = "ok"
            /\ ret \in DOMAIN d
            /\ RLt(args, Cumulative(d, ret))
            /\ \A h \in DOMAIN d : LexLess(h, ret) => RLeq(Cumulative(d, h), args)
            /\ RLt(Zero, d[ret])
            /\ ~Exhausted(args)

\* "2" was returned after the loop passed "10", which carries weight, and
\* a grade of weight 0 was passed over
C9_Witness ==
    /\ op = "random_grade"
    /\ IsDistribution(heap[distribution])
    /\ DOMAIN heap[distribution] = Labels
    /\ ret = <<2>>
    /\ RLt(Zero, heap[distribution][<<1, 0>>])
    /\ heap[distribution][<<1>>] = Zero

\* what an access would compute from the mappings as they are now
FreshMean == scaled_mean(<<>>, grades, heap[boundaries], heap[distribution])
Reads == {"scaled_mean", "scaled_standard_deviation", "z_score_for"}

\* C6: each statistic is stored by its first successful access and never
\* changes afterwards: no step removes or overwrites a memo entry, a
\* successful access leaves its statistic memoised and returns the stored
\* value, and an access to a memoised statistic succeeds with the value
\* stored before, whatever was written to the mappings in between.
C6_MemoWrittenOnce ==
    [][ /\ \A k \in DOMAIN memory : k \in DOMAIN memory' /\ memory'[k] = memory[k]
        /\ op' \notin Reads => memory' = memory
        /\ (op' = "scaled_mean" /\ outcome' = "ok") =>
               MU \in DOMAIN memory' /\ ret' = memory'[MU]
        /\ (op' = "scaled_standard_deviation" /\ outcome' = "ok") =>
               SIGMA \in DOMAIN memory' /\ ret' = memory'[SIGMA]
        /\ (op' = "scaled_mean" /\ MU \in DOMAIN memory) =>
               outcome' = "ok" /\ ret' = memory[MU]
        /\ (op' = "scaled_standard_deviation" /\ SIGMA \in DOMAIN memory) =>
               outcome' = "ok" /\ ret' = memory[SIGMA]
      ]_vars

\* scaled_mean was read after a write to the mappings changed what a fresh
\* computation would give, and the stored value came back
C6_Witness ==
    /\ op = "scaled_mean"
    /\ outcome = "ok"
    /\ mutations >= 1
    /\ ret = memory[MU]
    /\ FreshMean.outcome = "ok"
    /\ FreshMean.value # ret

ZeroSurd == Sqrt(Zero)

\* C7: when the standard deviation is zero z_score_for raises for every
\* mark and returns no value; when it is not zero, z_score_for of the scaled
\* mean is 0.
C7_ZScore ==
    (op = "z_score_for" /\ SIGMA \in DOMAIN memory /\ MU \in DOMAIN memory) =>
        /\ memory[SIGMA] = ZeroSurd => outcome = "ZeroDivisionError" /\ ret = <<>>
        /\ (memory[SIGMA] # ZeroSurd /\ args = memory[MU]) =>
               outcome = "ok" /\ ret = ZeroSurd

\* a z-score was asked of a Subject whose two grades both carry weight and
\* have the same midpoint, and the call raised
C7_Witness ==
    /\ op = "z_score_for"
    /\ outcome = "ZeroDivisionError"
    /\ Len(grades) = 2
    /\ \A g \in Range(grades) : RLt(Zero, heap[distribution][g])
    /\ memory[SIGMA] = ZeroSurd

\* some grade of the distribution has no entry in boundaries
SomeGradeUnknown == \E i \in DOMAIN grades : grades[i] \notin DOMAIN heap[boundaries]

FormatError == "ValueError"

\* a parsed expression built from numbers, strings, tuples and mappings only
RECURSIVE IsLiteral(_)
IsLiteral(ast) ==
    CASE ast.k \in {"num", "str"} -> TRUE
      [] ast.k = "tuplelit" -> \A i \in DOMAIN ast.v : IsLiteral(ast.v[i])
      [] ast.k = "dictlit" -> \A i \in DOMAIN ast.v[2] : IsLiteral(ast.v[2][i])
      [] OTHER -> FALSE

\* the argument is a mapping, or text that is a literal of a mapping
IsMappingInput(data) ==
    \/ data.k \in {"ref", "dict"}
    \/ /\ data.k = "text"
       /\ LET r == Parse(data.v)
          IN  r.ok /\ r.rest = <<>> /\ r.ast.k = "dictlit" /\ IsLiteral(r.ast)

\* C3: a converter given anything but a mapping or the text of a mapping
\* literal raises FormatError, and no call ever runs code from the text.
C3_OnlyMappingsAccepted ==
    op \in {"_convert_bounds", "_convert_distribution"} =>
        /\ ~IsMappingInput(args) => outcome = FormatError
        /\ ~ret.ran

\* C4: on every non-empty ascending sequence and every rank p in [0, 1),
\* _tile returns a value, _tile(seq, 0) is seq[0], and _tile(seq, p) is at
\* most _tile(seq, q) for every rank q in [p, 1).
C4_TileTotalAndMonotone ==
    (op = "_tile" /\ args.data # <<>> /\ RLt(args.p, One)) =>
        /\ outcome = "ok"
        /\ _tile(args.data, Zero).outcome = "ok"
        /\ _tile(args.data, Zero).value = args.data[1]
        /\ \A q \in Ranks :
              (RLeq(args.p, q) /\ RLt(q, One)) =>
                  /\ _tile(args.data, q).outcome = "ok"
                  /\ RLeq(ret, _tile(args.data, q).value)

\* The same over the sequences of two or more elements, where it holds.
TileOnTwoOrMore ==
    (op = "_tile" /\ Len(args.data) >= 2 /\ RLt(args.p, One)) =>
        /\ outcome = "ok"
        /\ _tile(args.data, Zero).value = args.data[1]
        /\ \A q \in Ranks :
              (RLeq(args.p, q) /\ RLt(q, One)) =>
                  /\ _tile(args.data, q).outcome = "ok"
                  /\ RLeq(ret, _tile(args.data, q).value)

\* C8: for a Subject with grades, every n >= 1, every p in [0, 1) and every
\* simulations >= 1, the confidence interval is returned after exactly
\* simulations trials, with low <= high, and low = high when p = 0.
C8_IntervalReturned ==
    (/\ op = "average_grade_confidence_interval"
     /\ grades # <<>>
     /\ RLt(args.p, One)) =>
        /\ outcome = "ok"
        /\ ret.trials = args.simulations
        /\ RLeq(ret.value[1], ret.value[2])
        /\ args.p = Zero => ret.value[1] = ret.value[2]

\* The same for two or more simulations, where it holds.
IntervalOnTwoOrMore ==
    (/\ op = "average_grade_confidence_interval"
     /\ grades # <<>>
     /\ args.simulations >= 2
     /\ RLt(args.p, One)) =>
        /\ outcome = "ok"
        /\ ret.trials = args.simulations
        /\ RLeq(ret.value[1], ret.value[2])
        /\ args.p = Zero => ret.value[1] = ret.value[2]

====
